---- MODULE Spec2Model ----
(***************************************************************************)
(* Model of the bridge listener of src/script.py: the EventScanner with    *)
(* its state file (scanner_state.json), the TransactionRelayer and the     *)
(* polling loop of BridgeListener.run, together with the source chain and  *)
(* process crashes / restarts as the environment.                          *)
(***************************************************************************)
EXTENDS Integers, Sequences, FiniteSets, TLC

\* ---- bounds of the model -------------------------------------------------
MaxHeight == 2          \* the source chain grows up to this block number
MaxConfirmations == 1   \* CONFIRMATION_BLOCKS is drawn from 0..MaxConfirmations
MaxEvents == 2          \* DepositInitiated events emitted on the chain in total
MaxLogsPerBlock == 1    \* events one block can carry
MaxStarts == 2          \* times the process is started (first start + restarts)

\* ---- state ---------------------------------------------------------------
VARIABLES
    pc,                  \* position of the process: "down", "loop", "relay", "sleep",
                         \* "exited"
    last_scanned_block,  \* EventScanner.last_scanned_block (NoValue while down)
    state_file,          \* scanner_state.json: [exists, content]
    latest_block,        \* web3.eth.block_number of the source chain
    chain_logs,          \* DepositInitiated logs on the source chain
    confirmation_blocks, \* config['CONFIRMATION_BLOCKS']
    events,              \* the list returned by scan_for_events, iterated by run
    cursor,              \* index in events of the next event of the for loop
    starts,              \* number of process starts so far
    window,              \* history: [from, to] of the last create_filter call
    scan_outcome,        \* history: how the last scan_for_events call ended
    signCount,           \* history: per event, destination transactions signed
    failCount,           \* history: per event, relay attempts that failed
    highWater,           \* history: largest checkpoint the scanner ever held
    load_outcome,        \* history: how _load_state of the running process ended
    exit,                \* how the process ended: [cause, at, code]
    start_checkpoint     \* history: the checkpoint loaded by the first start

vars == <<pc, last_scanned_block, state_file, latest_block, chain_logs,
          confirmation_blocks, events, cursor, starts, window, scan_outcome,
          signCount, failCount, highWater, load_outcome, exit, start_checkpoint>>

NoValue == -1

EventUniverse == [blockNumber : 1..MaxHeight, logIndex : 0..(MaxLogsPerBlock - 1)]

Max(a, b) == IF a >= b THEN a ELSE b

\* ---- the state file ------------------------------------------------------
\* json.dump({'last_scanned_block': n}, f) writes these chunks in this order.
JsonDump(n) == <<"{", "last_scanned_block", ":", n, "}">>

\* json.load succeeds only on a complete document; on anything shorter (the
\* empty file included) it raises JSONDecodeError.
JsonValid(content) ==
    /\ Len(content) = 5
    /\ content[1] = "{"
    /\ content[2] = "last_scanned_block"
    /\ content[3] = ":"
    /\ content[5] = "}"

JsonLoad(content) == content[4]

NoFile == [exists |-> FALSE, content |-> <<>>]

\* open(state_file, 'w') creates or truncates the file.  The chunks json.dump
\* writes stay in the buffer of the file object and reach the file in one
\* piece when the with block closes it.
Truncated == [exists |-> TRUE, content |-> <<>>]

\* Variant that reads a key the document does not have and gets the default.
LoadState_WrongKey(file, io, current_block) ==
    IF file.exists /\ io = "ok" /\ JsonValid(file.content)
    THEN 0
    ELSE current_block

\* Variant whose fallback is block 0.
LoadState_ZeroFallback(file, io, current_block) ==
    IF file.exists /\ io = "ok" /\ JsonValid(file.content)
    THEN JsonLoad(file.content)
    ELSE 0

\* Variant whose fallback is one block behind the current block.
LoadState_FallbackBehind(file, io, current_block) ==
    IF file.exists /\ io = "ok" /\ JsonValid(file.content)
    THEN JsonLoad(file.content)
    ELSE current_block - 1

\* EventScanner._load_state; io = "read_error" is the IOError of open().
LoadState(file, io, current_block) ==
    IF file.exists /\ io = "ok" /\ JsonValid(file.content)
    THEN JsonLoad(file.content)
    ELSE current_block

\* EventScanner._save_state: the file after the call.  An IOError is logged
\* and swallowed.
\*   io = "ok"          the document is written
\*   io = "open_error"  open() raises, the file is untouched
\*   io = "write_error" the flush at close raises, the file stays truncated
SaveState(file, value, io) ==
    CASE io = "ok"          -> [exists |-> TRUE, content |-> JsonDump(value)]
      [] io = "open_error"  -> file
      [] io = "write_error" -> Truncated

\* ---- scan_for_events -----------------------------------------------------
\* Variant that forgets the confirmation depth.
ToBlock_NoConfirmations(latest, confirmations) == latest

ToBlock(latest, confirmations) == latest - confirmations

FromBlock(last) == last + 1

\* Variant with the comparison off by one.
NothingToScan_OffByOne(from_block, to_block) == from_block > to_block + 1

NothingToScan(from_block, to_block) == from_block > to_block

LogsInRange(logs, from_block, to_block) ==
    {e \in logs : e.blockNumber >= from_block /\ e.blockNumber <= to_block}

Orderings(S) ==
    {s \in [1..Cardinality(S) -> S] : \A i, j \in 1..Cardinality(S) : s[i] = s[j] => i = j}

\* event_filter.get_all_entries(): the logs of the range, in the order the
\* node returns them.
GetAllEntries(logs, from_block, to_block) == Orderings(LogsInRange(logs, from_block, to_block))

\* Variant that assigns last_scanned_block before the fetch.
AfterScan_BeforeFetch(last, to_block, fetched) == to_block

\* last_scanned_block after the call: the assignment of line 218 is reached
\* only when the window is not empty and neither the height query nor the
\* fetch raised; every other path returns [] before it.
AfterScan(last, to_block, fetched) == IF fetched THEN to_block ELSE last

\* ---- run() and __main__ -----------------------------------------------------
NoExit == [cause |-> "none", at |-> "none", code |-> NoValue]

\* Exit status of the script.  "returned": run() returned after break;
\* "caught": the except clause of __main__ (ValueError, RuntimeError,
\* ConnectionError) logged the startup error and the script ran to its end;
\* "uncaught": an exception left __main__.
MainExitCode(how) == IF how = "uncaught" THEN 1 ELSE 0

\* How a startup error leaves __main__.  A missing variable and a failing
\* int() raise ValueError, a node that is not connected raises
\* ConnectionError; a RequestException of the HTTP provider is re-raised by
\* connect() and matches none of the three.
StartupExit(error) ==
    [cause |-> IF error \in {"missing", "malformed"} THEN "config_error" ELSE "node_error",
     at |-> "startup",
     code |-> MainExitCode(IF error = "request_exception" THEN "uncaught" ELSE "caught")]

\* A KeyboardInterrupt raised at position at of the try block of run() is
\* caught by except KeyboardInterrupt; run() breaks and returns.
InterruptExit(at) ==
    [cause |-> "cancelled", at |-> at, code |-> MainExitCode("returned")]

\* ---- initial state -------------------------------------------------------
Init ==
    /\ pc = "down"
    /\ last_scanned_block = NoValue
    /\ state_file = NoFile
    /\ latest_block = 0
    /\ chain_logs = {}
    /\ confirmation_blocks \in 0..MaxConfirmations
    /\ events = <<>>
    /\ cursor = 1
    /\ starts = 0
    /\ window = [from |-> 0, to |-> 0]
    /\ scan_outcome = "none"
    /\ signCount = [e \in EventUniverse |-> 0]
    /\ failCount = [e \in EventUniverse |-> 0]
    /\ highWater = 0
    /\ load_outcome = "none"
    /\ exit = NoExit
    /\ start_checkpoint = NoValue

\* ---- environment ---------------------------------------------------------
\* The source chain mines a block carrying n DepositInitiated events.
NewBlock(n) ==
    /\ latest_block < MaxHeight
    /\ Cardinality(chain_logs) + n <= MaxEvents
    /\ latest_block' = latest_block + 1
    /\ chain_logs' = chain_logs \cup
           {[blockNumber |-> latest_block + 1, logIndex |-> i] : i \in 0..(n - 1)}
    /\ UNCHANGED <<pc, last_scanned_block, state_file, confirmation_blocks, events,
                   cursor, starts, window, scan_outcome, signCount, failCount, highWater,
                   load_outcome, exit, start_checkpoint>>

\* The process dies (kill, power loss) anywhere outside the state file write.
Crash ==
    /\ pc \notin {"down", "exited"}
    /\ pc' = "down"
    /\ last_scanned_block' = NoValue
    /\ events' = <<>>
    /\ cursor' = 1
    /\ load_outcome' = "none"
    /\ UNCHANGED <<state_file, latest_block, chain_logs, confirmation_blocks, starts,
                   window, scan_outcome, signCount, failCount, highWater, exit, start_checkpoint>>

\* Which path of _load_state is taken: the value of the file is returned
\* ("loaded"), or the current block number because the file does not exist
\* ("no_file"), open() raises IOError ("unreadable") or json.load raises
\* JSONDecodeError ("corrupt").
LoadOutcome(file, io) ==
    CASE ~file.exists -> "no_file"
      [] file.exists /\ io # "ok" -> "unreadable"
      [] file.exists /\ io = "ok" /\ ~JsonValid(file.content) -> "corrupt"
      [] OTHER -> "loaded"

\* ---- the process ---------------------------------------------------------
\* __main__ -> BridgeListener.__init__ -> EventScanner.__init__ -> _load_state
Start(io) ==
    /\ pc \in {"down", "exited"}
    /\ starts < MaxStarts
    /\ starts' = starts + 1
    /\ last_scanned_block' = LoadState(state_file, io, latest_block)
    /\ highWater' = Max(highWater, last_scanned_block')
    /\ load_outcome' = LoadOutcome(state_file, io)
    /\ start_checkpoint' = IF start_checkpoint = NoValue THEN last_scanned_block'
                                                         ELSE start_checkpoint
    /\ exit' = NoExit
    /\ pc' = "loop"
    /\ events' = <<>>
    /\ cursor' = 1
    /\ UNCHANGED <<state_file, latest_block, chain_logs, confirmation_blocks,
                   window, scan_outcome, signCount, failCount>>

\* __main__ fails before run(): load_config rejects the configuration (a
\* required variable is missing, line 61, or int() fails, lines 65-66), or
\* BlockchainConnector.connect cannot reach a node.  The loop is not entered.
StartFails(error) ==
    /\ pc \in {"down", "exited"}
    /\ starts < MaxStarts
    /\ error \in {"missing", "malformed", "not_connected", "request_exception"}
    /\ starts' = starts + 1
    /\ pc' = "exited"
    /\ exit' = StartupExit(error)
    /\ UNCHANGED <<last_scanned_block, state_file, latest_block, chain_logs,
                   confirmation_blocks, events, cursor, window, scan_outcome, signCount,
                   failCount, highWater, load_outcome, start_checkpoint>>

\* One call of scan_for_events from run().  rpc tells which node call raises
\* ("height_error": eth.block_number, "fetch_error": create_filter or
\* get_all_entries), io how _save_state goes.
ScanForEvents(rpc, entries, io) ==
    /\ pc = "loop"
    /\ LET to_block == ToBlock(latest_block, confirmation_blocks)
           from_block == FromBlock(last_scanned_block)
           waiting == rpc # "height_error" /\ NothingToScan(from_block, to_block)
           fetched == rpc = "ok" /\ ~NothingToScan(from_block, to_block)
       IN  /\ entries \in IF fetched THEN GetAllEntries(chain_logs, from_block, to_block)
                                     ELSE {<<>>}
           /\ last_scanned_block' = AfterScan(last_scanned_block, to_block, fetched)
           /\ state_file' = IF fetched
                             THEN SaveState(state_file, last_scanned_block', io)
                             ELSE state_file
           /\ window' = IF fetched THEN [from |-> from_block, to |-> to_block] ELSE window
           /\ scan_outcome' = CASE rpc = "height_error" -> "height_error"
                                 [] waiting -> "waiting"
                                 [] fetched /\ io = "ok" -> "saved"
                                 [] fetched /\ io # "ok" -> "save_error"
                                 [] OTHER -> "fetch_error"
    /\ highWater' = Max(highWater, last_scanned_block')
    /\ events' = entries
    /\ cursor' = 1
    /\ pc' = IF entries # <<>> THEN "relay" ELSE "sleep"
    /\ UNCHANGED <<latest_block, chain_logs, confirmation_blocks, starts,
                   signCount, failCount, load_outcome, exit, start_checkpoint>>

\* The process dies inside _save_state, after open(.., 'w') truncated the file
\* and before the document is flushed to it.
CrashInSave ==
    /\ pc = "loop"
    /\ LET to_block == ToBlock(latest_block, confirmation_blocks)
           from_block == FromBlock(last_scanned_block)
       IN  /\ ~NothingToScan(from_block, to_block)
           /\ window' = [from |-> from_block, to |-> to_block]
           /\ highWater' = Max(highWater, AfterScan(last_scanned_block, to_block, TRUE))
    /\ state_file' = Truncated
    /\ scan_outcome' = "crash_in_save"
    /\ pc' = "down"
    /\ last_scanned_block' = NoValue
    /\ events' = <<>>
    /\ cursor' = 1
    /\ load_outcome' = "none"
    /\ UNCHANGED <<latest_block, chain_logs, confirmation_blocks, starts,
                   signCount, failCount, exit, start_checkpoint>>

\* What the relayer keeps about an event after simulate_claim_withdrawal: the
\* method writes log lines only, stores nothing and returns None, whatever the
\* outcome of the call.
NoRecord == [status |-> "None", attempts |-> 0, destTxHash |-> FALSE]

RelayRecord(e, signed, failed) == NoRecord

\* Variant in which a failed relay ends the for loop of the cycle.
Relay_StopAtFailure(ok) ==
    /\ pc = "relay"
    /\ cursor <= Len(events)
    /\ LET event == events[cursor]
       IN  IF ok
           THEN /\ signCount' = [signCount EXCEPT ![event] = @ + 1]
                /\ UNCHANGED failCount
           ELSE /\ failCount' = [failCount EXCEPT ![event] = @ + 1]
                /\ UNCHANGED signCount
    /\ cursor' = cursor + 1
    /\ pc' = IF cursor + 1 > Len(events) \/ ~ok THEN "sleep" ELSE "relay"
    /\ UNCHANGED <<last_scanned_block, state_file, latest_block, chain_logs,
                   confirmation_blocks, events, starts, window, scan_outcome, highWater,
                   load_outcome, exit, start_checkpoint>>

\* Variant in which the exception of a failed relay is not caught and ends
\* the process.
Relay_FailureFatal(ok) ==
    /\ pc = "relay"
    /\ cursor <= Len(events)
    /\ LET event == events[cursor]
       IN  IF ok
           THEN /\ signCount' = [signCount EXCEPT ![event] = @ + 1]
                /\ UNCHANGED failCount
           ELSE /\ failCount' = [failCount EXCEPT ![event] = @ + 1]
                /\ UNCHANGED signCount
    /\ cursor' = cursor + 1
    /\ pc' = IF ~ok THEN "down" ELSE IF cursor + 1 > Len(events) THEN "sleep" ELSE "relay"
    /\ UNCHANGED <<last_scanned_block, state_file, latest_block, chain_logs,
                   confirmation_blocks, events, starts, window, scan_outcome, highWater,
                   load_outcome, exit, start_checkpoint>>

\* One iteration of the for loop of run(): process_event(event), which calls
\* simulate_claim_withdrawal; an exception there is logged and swallowed.
\* While pc = "relay" the call for events[cursor] is in flight.
Relay(ok) ==
    /\ pc = "relay"
    /\ cursor <= Len(events)
    /\ LET event == events[cursor]
       IN  IF ok
           THEN /\ signCount' = [signCount EXCEPT ![event] = @ + 1]
                /\ UNCHANGED failCount
           ELSE /\ failCount' = [failCount EXCEPT ![event] = @ + 1]
                /\ UNCHANGED signCount
    /\ cursor' = cursor + 1
    /\ pc' = IF cursor + 1 > Len(events) THEN "sleep" ELSE "relay"
    /\ UNCHANGED <<last_scanned_block, state_file, latest_block, chain_logs,
                   confirmation_blocks, events, starts, window, scan_outcome, highWater,
                   load_outcome, exit, start_checkpoint>>

\* time.sleep(interval) returns and the while loop starts the next cycle.
Wake ==
    /\ pc = "sleep"
    /\ pc' = "loop"
    /\ UNCHANGED <<last_scanned_block, state_file, latest_block, chain_logs,
                   confirmation_blocks, events, cursor, starts, window, scan_outcome,
                   signCount, failCount, highWater, load_outcome, exit, start_checkpoint>>

\* KeyboardInterrupt while run() is at position pc.  At "relay" the call
\* process_event(events[cursor]) is in flight: its except Exception clauses do
\* not catch KeyboardInterrupt, so the call is abandoned where it stands.
Interrupt ==
    /\ pc \in {"loop", "relay", "sleep"}
    /\ exit' = InterruptExit(pc)
    /\ pc' = "exited"
    /\ last_scanned_block' = NoValue
    /\ events' = <<>>
    /\ cursor' = 1
    /\ load_outcome' = "none"
    /\ UNCHANGED <<state_file, latest_block, chain_logs, confirmation_blocks, starts,
                   window, scan_outcome, signCount, failCount, highWater,
                   start_checkpoint>>

\* KeyboardInterrupt inside _save_state, after open(.., 'w') truncated the
\* file and before json.dump wrote to it: except IOError does not catch it.
InterruptInSave ==
    /\ pc = "loop"
    /\ LET to_block == ToBlock(latest_block, confirmation_blocks)
           from_block == FromBlock(last_scanned_block)
       IN  /\ ~NothingToScan(from_block, to_block)
           /\ window' = [from |-> from_block, to |-> to_block]
           /\ highWater' = Max(highWater, AfterScan(last_scanned_block, to_block, TRUE))
    /\ state_file' = Truncated
    /\ scan_outcome' = "interrupt_in_save"
    /\ exit' = InterruptExit("save")
    /\ pc' = "exited"
    /\ last_scanned_block' = NoValue
    /\ events' = <<>>
    /\ cursor' = 1
    /\ load_outcome' = "none"
    /\ UNCHANGED <<latest_block, chain_logs, confirmation_blocks, starts,
                   signCount, failCount, start_checkpoint>>

\* What get_all_entries can return for the window of the current state.
FetchResults ==
    {<<>>} \cup GetAllEntries(chain_logs, FromBlock(last_scanned_block),
                              ToBlock(latest_block, confirmation_blocks))

Next ==
    \/ \E n \in 0..MaxLogsPerBlock : NewBlock(n)
    \/ Crash
    \/ \E io \in {"ok", "read_error"} : Start(io)
    \/ \E error \in {"missing", "malformed", "not_connected", "request_exception"} :
          StartFails(error)
    \/ \E rpc \in {"ok", "height_error", "fetch_error"}, entries \in FetchResults,
          io \in {"ok", "open_error", "write_error"} :
          ScanForEvents(rpc, entries, io)
    \/ CrashInSave
    \/ \E ok \in BOOLEAN : Relay(ok)
    \/ Wake
    \/ Interrupt
    \/ InterruptInSave

Spec == Init /\ [][Next]_vars

\* The loop of run() keeps going while the process is up, and the node does
\* not fail every call for ever; crashes, restarts and new blocks are up to
\* the environment.
FairSpec ==
    /\ Spec
    /\ WF_vars(\E rpc \in {"ok", "height_error", "fetch_error"}, entries \in FetchResults,
                  io \in {"ok", "open_error", "write_error"} :
                  ScanForEvents(rpc, entries, io))
    /\ SF_vars(\E entries \in FetchResults, io \in {"ok", "open_error", "write_error"} :
                  ScanForEvents("ok", entries, io))
    /\ WF_vars(\E ok \in BOOLEAN : Relay(ok))
    /\ WF_vars(Wake)

\* One run of the process from __main__ to its exit, without kills: startup,
\* the steps of run(), cancellation, and the chain.
RunNext ==
    \/ \E n \in 0..MaxLogsPerBlock : NewBlock(n)
    \/ \E io \in {"ok", "read_error"} : pc = "down" /\ Start(io)
    \/ \E rpc \in {"ok", "height_error", "fetch_error"}, entries \in FetchResults,
          io \in {"ok", "open_error", "write_error"} :
          ScanForEvents(rpc, entries, io)
    \/ \E ok \in BOOLEAN : Relay(ok)
    \/ Wake
    \/ Interrupt

\* run() executes its next statement while the process is up.
RunSpec ==
    /\ Init
    /\ [][RunNext]_vars
    /\ WF_vars(\E rpc \in {"ok", "height_error", "fetch_error"}, entries \in FetchResults,
                  io \in {"ok", "open_error", "write_error"} :
                  ScanForEvents(rpc, entries, io))
    /\ WF_vars(\E ok \in BOOLEAN : Relay(ok))
    /\ WF_vars(Wake)

TypeOK ==
    /\ pc \in {"down", "loop", "relay", "sleep", "exited"}
    /\ last_scanned_block \in NoValue..MaxHeight
    /\ latest_block \in 0..MaxHeight
    /\ chain_logs \subseteq EventUniverse
    /\ cursor \in 1..(MaxEvents + 1)
    /\ starts \in 0..MaxStarts
\* ---- properties ----------------------------------------------------------
\* The process exists: it was started and has neither crashed nor exited.
Running == pc \notin {"down", "exited"}

RelayCalls(e) == signCount[e] + failCount[e]

InWindow(e) == e.blockNumber >= window.from /\ e.blockNumber <= window.to

\* pc = "relay" or "sleep" is only reached through a scan of the running
\* process, so there scan_outcome and window describe the current cycle.
InCycle == pc \in {"relay", "sleep"}

\* A step of scan_for_events that returned to run().
ScanReturned == pc = "loop" /\ pc' \in {"relay", "sleep"}

\* C1: the checkpoint held by the scanner, in memory or as reloaded by
\* _load_state after a restart, is never below a value it held before.
C1_CheckpointNeverDecreases ==
    Running => last_scanned_block >= highWater

\* C2: while events of the fetched window are still waiting to be passed to
\* relay, the checkpoint has not been advanced to the window's end, neither
\* in memory nor in the state file.
C2_CommitOnlyAfterRelay ==
    (pc = "relay" /\ cursor <= Len(events)) =>
        /\ last_scanned_block < window.to
        /\ ~(state_file.exists /\ JsonValid(state_file.content)
                /\ JsonLoad(state_file.content) >= window.to)

\* C3: after a restart that follows a crash between the fetch of a window and
\* the relay of all its events, the checkpoint is still below every event of
\* that window that was never passed to relay, so the next scan covers it.
C3_CrashRepeatsWindow ==
    (pc = "loop" /\ scan_outcome \in {"saved", "save_error"}) =>
        \A e \in chain_logs :
            (InWindow(e) /\ RelayCalls(e) = 0) => last_scanned_block < e.blockNumber

\* C4: however often relay is invoked for one event, at most one destination
\* transaction is built and signed for it.
C4_RelayIdempotent ==
    \A e \in EventUniverse : signCount[e] <= 1

\* C5: an event whose relay attempts have all failed is relayed again later,
\* as long as the process stays up.
C5_FailedRelayRetried ==
    \A e \in EventUniverse : \A n \in 1..MaxStarts :
        (signCount[e] = 0 /\ failCount[e] = n)
            ~> (RelayCalls(e) > n \/ ~Running)

\* C6: a scan that fetches with checkpoint c, height h and depth k queries
\* exactly [c+1, h-k] and returns exactly the logs of those blocks, each once.
C6_ScanRangeExact ==
    [][(ScanReturned /\ scan_outcome' \in {"saved", "save_error"}) =>
          /\ window'.from = last_scanned_block + 1
          /\ window'.to = latest_block - confirmation_blocks
          /\ \A i \in 1..Len(events') :
                /\ events'[i].blockNumber >= last_scanned_block + 1
                /\ events'[i].blockNumber <= latest_block - confirmation_blocks
          /\ \A e \in chain_logs :
                (e.blockNumber >= last_scanned_block + 1
                    /\ e.blockNumber <= latest_block - confirmation_blocks)
                => Cardinality({i \in 1..Len(events') : events'[i] = e}) = 1]_vars

C6_Witness ==
    /\ pc = "relay"
    /\ scan_outcome = "saved"
    /\ confirmation_blocks > 0
    /\ \E e \in chain_logs : e.blockNumber > window.to

\* C7: a scan that finds checkpoint + 1 > latest - confirmations returns no
\* events and changes neither last_scanned_block nor the state file.
C7_EmptyWindowNoMutation ==
    [][(ScanReturned /\ last_scanned_block + 1 > latest_block - confirmation_blocks) =>
          /\ events' = <<>>
          /\ last_scanned_block' = last_scanned_block
          /\ state_file' = state_file]_vars

C7_Witness ==
    /\ pc = "sleep"
    /\ scan_outcome = "waiting"
    /\ state_file.exists
    /\ last_scanned_block + 1 > latest_block - confirmation_blocks

\* C8: a scan whose height query or log fetch fails returns no events and
\* changes neither last_scanned_block nor the state file.
C8_FetchFailureKeepsCheckpoint ==
    [][(ScanReturned /\ scan_outcome' \in {"height_error", "fetch_error"}) =>
          /\ events' = <<>>
          /\ last_scanned_block' = last_scanned_block
          /\ state_file' = state_file]_vars

C8_Witness ==
    /\ pc = "sleep"
    /\ scan_outcome = "fetch_error"
    /\ state_file.exists
    /\ \E e \in chain_logs :
          /\ e.blockNumber > last_scanned_block
          /\ e.blockNumber <= latest_block - confirmation_blocks

\* C9: after a crash inside the write of a new checkpoint, the value loaded
\* at restart is the checkpoint from before the write or the new one.
C9_CommitAtomic ==
    (pc = "loop" /\ scan_outcome = "crash_in_save") =>
        last_scanned_block \in {window.from - 1, window.to}

\* C10: in a cycle whose checkpoint write failed with an I/O error, the
\* checkpoint is still the one from before the scan.
C10_SaveErrorKeepsCheckpoint ==
    (InCycle /\ scan_outcome = "save_error") => last_scanned_block = window.from - 1

\* A step that constructs the EventScanner, _load_state included.
Started == pc \in {"down", "exited"} /\ pc' = "loop"

\* C11: a checkpoint V written by _save_state is what _load_state returns,
\* in the process that wrote it and in a process started after it.
C11_CheckpointRoundTrip ==
    [][/\ (InCycle' /\ scan_outcome' = "saved") =>
             LoadState(state_file', "ok", latest_block') = window'.to
       /\ (Started /\ scan_outcome = "saved" /\ load_outcome' = "loaded") =>
             last_scanned_block' = window.to]_vars

C11_Witness ==
    /\ pc = "loop"
    /\ starts = 2
    /\ scan_outcome = "saved"
    /\ load_outcome = "loaded"
    /\ last_scanned_block = window.to
    /\ last_scanned_block > 0
    /\ last_scanned_block < latest_block

\* C14 as stated: with no state file, the checkpoint loaded at start is 0.
C14_NoFileStartsAtZero ==
    [][(Started /\ ~state_file.exists) => last_scanned_block' = 0]_vars

\* C14: with no state file, the checkpoint loaded at start is the current
\* block number of the source chain, so the first window starts one block
\* above the height at startup.
C14_NoFileStartsAtCurrentBlock ==
    [][(Started /\ ~state_file.exists) =>
          /\ load_outcome' = "no_file"
          /\ last_scanned_block' = latest_block
          /\ FromBlock(last_scanned_block') = latest_block + 1]_vars

C14_Witness ==
    /\ pc = "loop"
    /\ load_outcome = "no_file"
    /\ ~state_file.exists
    /\ last_scanned_block = latest_block
    /\ last_scanned_block > 0

\* C15 as stated: when the state file cannot be parsed, the checkpoint loaded
\* at start is the current block number minus the confirmation depth.
C15_CorruptFallsBackBelowHead ==
    [][(Started /\ state_file.exists /\ ~JsonValid(state_file.content)) =>
          last_scanned_block' = latest_block - confirmation_blocks]_vars

\* C15: when the state file cannot be parsed, the checkpoint loaded at start
\* is the current block number, so the first window starts one block above
\* the height at startup.
C15_CorruptFallsBackToHead ==
    [][(Started /\ state_file.exists /\ ~JsonValid(state_file.content)) =>
          /\ load_outcome' \in {"corrupt", "unreadable"}
          /\ last_scanned_block' = latest_block
          /\ FromBlock(last_scanned_block') = latest_block + 1]_vars

C15_Witness ==
    /\ pc = "loop"
    /\ load_outcome = "corrupt"
    /\ state_file = Truncated
    /\ confirmation_blocks > 0
    /\ last_scanned_block = latest_block
    /\ last_scanned_block > 0

\* (blockNumber, logIndex) of a comes before or at that of b.
NotAfter(a, b) ==
    \/ a.blockNumber < b.blockNumber
    \/ a.blockNumber = b.blockNumber /\ a.logIndex <= b.logIndex

\* C12: the events run() passes to relay for one window are in
\* non-decreasing (blockNumber, logIndex) order.
C12_RelayInLedgerOrder ==
    pc = "relay" =>
        \A i, j \in 1..Len(events) : i < j => NotAfter(events[i], events[j])

\* C13: an event whose only relay call failed has a record Failed with
\* attempts = 1, and once a later call for it succeeded the record is
\* Submitted with attempts = 2 and a destination transaction hash.
C13_RelayRecordTracksAttempts ==
    \A e \in EventUniverse :
        /\ (failCount[e] = 1 /\ signCount[e] = 0) =>
              LET r == RelayRecord(e, signCount[e], failCount[e])
              IN  r.status = "Failed" /\ r.attempts = 1
        /\ (failCount[e] = 1 /\ signCount[e] = 1) =>
              LET r == RelayRecord(e, signCount[e], failCount[e])
              IN  r.status = "Submitted" /\ r.attempts = 2 /\ r.destTxHash

\* C16: a process that stopped through cancellation has exit code 0, and one
\* whose startup failed on the configuration has a non-zero exit code and
\* never held a checkpoint.
C16_ExitCodes ==
    pc = "exited" =>
        /\ exit.cause = "cancelled" => exit.code = 0
        /\ exit.cause = "config_error" =>
              (exit.code # 0 /\ exit.at = "startup" /\ last_scanned_block = NoValue)

\* C17: at the end of a cycle that fetched a window, every event of the
\* window has been passed to relay, whatever the outcome of the relays
\* before it, and the checkpoint is the window end.
C17_WindowFullyAttempted ==
    (pc = "sleep" /\ scan_outcome \in {"saved", "save_error"}) =>
        /\ cursor = Len(events) + 1
        /\ \A e \in LogsInRange(chain_logs, window.from, window.to) :
              /\ \E i \in 1..Len(events) : events[i] = e
              /\ RelayCalls(e) >= 1
        /\ last_scanned_block = window.to
        /\ scan_outcome = "saved" => state_file.content = JsonDump(window.to)

C17_Witness ==
    /\ pc = "sleep"
    /\ scan_outcome = "saved"
    /\ Len(events) = 2
    /\ failCount[events[1]] >= 1
    /\ RelayCalls(events[2]) >= 1
    /\ last_scanned_block = window.to

\* C18: while the process is up, whatever failed in the cycle, a new scan is
\* eventually started, unless the process is cancelled.
C18_LoopKeepsCycling ==
    [](Running => <>(pc = "loop" \/ (pc = "exited" /\ exit.cause = "cancelled")))

C18_Witness ==
    /\ pc = "loop"
    /\ starts = 1
    /\ scan_outcome = "fetch_error"
    /\ \E e \in chain_logs : failCount[e] >= 1

\* C19: a process that stopped through cancellation was not stopped while a
\* relay was in flight nor in the middle of the checkpoint write.
C19_CancelAtStepBoundary ==
    (pc = "exited" /\ exit.cause = "cancelled") => exit.at \notin {"relay", "save"}

\* C20: at a cycle boundary every event above the checkpoint the instance
\* started with and at or below the current checkpoint has been passed to
\* relay at least once.
C20_NoEventLost ==
    pc \in {"loop", "sleep"} =>
        \A e \in chain_logs :
            (e.blockNumber > start_checkpoint /\ e.blockNumber <= last_scanned_block)
                => RelayCalls(e) >= 1

====
